---- MODULE Spec2Model ----
(***************************************************************************)
(* A model of the MA-System task-routing flow:                             *)
(*   - nodes/google_apis_node.py : google_api_agent_node (the worker step) *)
(*   - streamlit_ui.py           : format_agent_output, execute_graph and  *)
(*                                 the Streamlit script around them        *)
(* The planner node, the State reducer and the dispatcher loop live in     *)
(* graph/ (graph.builder, graph.state), which is not among the sources;    *)
(* they are modelled from the specification (sections 3 and 4.3/4.4).      *)
(*                                                                         *)
(* Texts that the program parses or serialises (message contents) are      *)
(* sequences of tokens; json.dumps and json.loads are a serialiser and a   *)
(* recursive-descent parser over them.  Python strings that are only       *)
(* passed around (prompts, task texts, final answers) are TLA+ strings.    *)
(* A Python str that the code concatenates (str(e) inside an f-string) is  *)
(* a sequence of non-empty chunks, the empty str being << >>.              *)
(***************************************************************************)
EXTENDS Integers, Sequences, FiniteSets, TLC

VARIABLES
    session_messages,  \* st.session_state.messages: the persisted chat history
    pc,                \* where the script / execute_graph / the graph run is
    prompt,            \* execute_graph's argument
    final_answer,      \* execute_graph's local final_answer
    output,            \* execute_graph's local output (unbound until assigned)
    initial_state,     \* execute_graph's local initial_state
    shown,             \* the last thing written into the st.status box
    rendered,          \* what st.markdown rendered as the answer (line 78)
    failure,           \* the exception that escaped execute_graph, or "none"
    state,             \* the graph's State of the running run
    steps,             \* node executions of the running run (dispatcher)
    worker,            \* the frame of the google_api_agent_node invocation
    last_return,       \* the dict the last worker invocation returned
    runs               \* how many runs the session has started

vars == <<session_messages, pc, prompt, final_answer, output, initial_state,
          shown, rendered, failure, state, steps, worker, last_return, runs>>

-----------------------------------------------------------------------------
(* Bounds of the model *)

MaxSteps == 4
MaxRuns == 2

-----------------------------------------------------------------------------
(* Python values and JSON text *)

PyStr(chunks) == [k |-> "str", s |-> chunks]
PyInt(n) == [k |-> "int", n |-> n]
PyNone == [k |-> "None"]
PyList(items) == [k |-> "list", items |-> items]
\* a dict keeps its items in insertion order: a sequence of <<key, value>>
PyDict(items) == [k |-> "dict", items |-> items]

\* str(s) for a plain string: the chunk sequence, empty for ""
StrOf(s) == IF s = "" THEN << >> ELSE <<s>>

Tok(t) == [t |-> t, v |-> << >>]
StrTok(chunks) == [t |-> "str", v |-> chunks]
NumTok(n) == [t |-> "num", v |-> <<n>>]
WordTok(w) == [t |-> "word", v |-> <<w>>]

RECURSIVE Dumps(_), DumpElements(_), DumpMembers(_)
\* json.dumps(value)
Dumps(val) ==
    CASE val.k = "str"  -> <<StrTok(val.s)>>
      [] val.k = "int"  -> <<NumTok(val.n)>>
      [] val.k = "None" -> <<Tok("null")>>
      [] val.k = "list" -> <<Tok("[")>> \o DumpElements(val.items) \o <<Tok("]")>>
      [] val.k = "dict" -> <<Tok("{")>> \o DumpMembers(val.items) \o <<Tok("}")>>

DumpElements(items) ==
    IF items = << >> THEN << >>
    ELSE IF Len(items) = 1 THEN Dumps(items[1])
    ELSE Dumps(items[1]) \o <<Tok(",")>> \o DumpElements(Tail(items))

DumpMembers(items) ==
    IF items = << >> THEN << >>
    ELSE LET m == <<StrTok(items[1][1]), Tok(":")>> \o Dumps(items[1][2])
         IN  IF Len(items) = 1 THEN m
             ELSE m \o <<Tok(",")>> \o DumpMembers(Tail(items))

ParseFail == [ok |-> FALSE]
ParseOk(val, rest) == [ok |-> TRUE, val |-> val, rest |-> rest]

RECURSIVE ParseValue(_), ParseElements(_, _), ParseMembers(_, _)
\* one JSON value at the head of toks
ParseValue(toks) ==
    IF toks = << >> THEN ParseFail
    ELSE LET h == Head(toks)
             r == Tail(toks)
         IN  CASE h.t = "str"  -> ParseOk(PyStr(h.v), r)
               [] h.t = "num"  -> ParseOk(PyInt(h.v[1]), r)
               [] h.t = "null" -> ParseOk(PyNone, r)
               [] h.t = "["    ->
                    IF r # << >> /\ Head(r).t = "]"
                    THEN ParseOk(PyList(<< >>), Tail(r))
                    ELSE ParseElements(r, << >>)
               [] h.t = "{"    ->
                    IF r # << >> /\ Head(r).t = "}"
                    THEN ParseOk(PyDict(<< >>), Tail(r))
                    ELSE ParseMembers(r, << >>)
               [] OTHER        -> ParseFail

ParseElements(toks, acc) ==
    LET p == ParseValue(toks)
    IN  IF ~p.ok \/ p.rest = << >> THEN ParseFail
        ELSE LET sep == Head(p.rest).t
                 items == Append(acc, p.val)
             IN  CASE sep = "]" -> ParseOk(PyList(items), Tail(p.rest))
                   [] sep = "," -> ParseElements(Tail(p.rest), items)
                   [] OTHER     -> ParseFail

ParseMembers(toks, acc) ==
    IF Len(toks) < 2 \/ toks[1].t # "str" \/ toks[2].t # ":" THEN ParseFail
    ELSE LET p == ParseValue(SubSeq(toks, 3, Len(toks)))
         IN  IF ~p.ok \/ p.rest = << >> THEN ParseFail
             ELSE LET sep == Head(p.rest).t
                      items == Append(acc, <<toks[1].v, p.val>>)
                  IN  CASE sep = "}" -> ParseOk(PyDict(items), Tail(p.rest))
                        [] sep = "," -> ParseMembers(Tail(p.rest), items)
                        [] OTHER     -> ParseFail

\* json.loads(text): the whole text must be one value, else JSONDecodeError
Loads(text) ==
    LET p == ParseValue(text)
    IN  IF p.ok /\ p.rest = << >>
        THEN [raised |-> FALSE, val |-> p.val]
        ELSE [raised |-> TRUE, exc |-> "JSONDecodeError"]

HasKey(d, key) == \E i \in 1..Len(d.items) : d.items[i][1] = key

\* dict.get(key, default); a repeated key keeps its last value
DictGet(d, key, default) ==
    IF HasKey(d, key)
    THEN LET i == CHOOSE j \in 1..Len(d.items) :
                      /\ d.items[j][1] = key
                      /\ \A l \in (j+1)..Len(d.items) : d.items[l][1] # key
         IN  d.items[i][2]
    ELSE default

-----------------------------------------------------------------------------
(* The texts the external calls can produce *)

Key(name) == <<name>>

StructuredResult(status, summary, data) ==
    PyDict(<< <<Key("status"), PyStr(<<status>>)>>,
              <<Key("summary"), PyStr(<<summary>>)>>,
              <<Key("extracted_data"), PyDict(data)>> >>)

GoodSuccess ==
    Dumps(StructuredResult("SUCCESS", "1 unread email",
            << <<Key("emails"), PyList(<<PyStr(<<"email-1">>)>>)>>,
               <<Key("events"), PyList(<< >>)>> >>))
GoodFailure ==
    Dumps(PyDict(StructuredResult("FAILURE", "the tool failed",
            << <<Key("emails"), PyList(<< >>)>>,
               <<Key("events"), PyList(<< >>)>> >>).items
          \o << <<Key("error_message"), PyStr(<<"tool error">>)>> >>))
MissingEvents ==
    Dumps(StructuredResult("SUCCESS", "1 unread email",
            << <<Key("emails"), PyList(<<PyStr(<<"email-1">>)>>)>> >>))
NoStatus == Dumps(PyDict(<< <<Key("answer"), PyStr(<<"1 unread email">>)>> >>))
JsonList == Dumps(PyList(<<PyStr(<<"email-1">>)>>))
JsonString == Dumps(PyStr(<<"1 unread email">>))
JsonNumber == Dumps(PyInt(3))
JsonNull == Dumps(PyNone)
Prose == <<WordTok("Here"), WordTok("are"), WordTok("your"), WordTok("emails")>>
PartialJson == <<Tok("{"), StrTok(<<"status">>), Tok(":")>>
EmptyText == << >>

\* what formatting_llm.invoke(...).content can be: the model's text is not
\* validated anywhere (node line 61), so every kind of text is possible
FormatterOutputs ==
    {GoodSuccess, GoodFailure, MissingEvents, NoStatus, JsonList, JsonString,
     JsonNumber, JsonNull, Prose, PartialJson, EmptyText}

\* what agent.run(...) can return
RawOutputs == {"From: a@b.c Subject: hi", "No unread emails."}

\* the exceptions a step of the worker can raise; str(e) is msg
Errors == {[cls |-> "ConnectionError", msg |-> "connection refused"],
           [cls |-> "TimeoutError", msg |-> ""]}

Prompts == {"Check my Gmail", "What is on my calendar"}
Tasks == {"fetch unread emails", "list events"}
FinalAnswers == {"You have 1 unread email.", "The request failed."}

-----------------------------------------------------------------------------
(* streamlit_ui.py: format_agent_output *)

Unbound == [k |-> "unbound"]
OutDict(d) == [k |-> "dict", d |-> d]

Returned(style, body) == [raised |-> FALSE, style |-> style, body |-> body]
Raised(exc) == [raised |-> TRUE, exc |-> exc]

IsStr(val, chunks) == val.k = "str" /\ val.s = chunks

\* lines 29-36: the try block over the last message's content
FormatContent(content) ==
    LET ld == Loads(content)
    IN  IF ld.raised THEN Returned("raw", content)
        ELSE IF ld.val.k # "dict" THEN Raised("AttributeError")
        ELSE IF IsStr(DictGet(ld.val, Key("status"), PyNone), <<"SUCCESS">>)
        THEN Returned("result",
                DictGet(ld.val, Key("summary"), PyStr(<<"No summary provided.">>)))
        ELSE Returned("failure",
                DictGet(ld.val, Key("summary"), PyStr(<<"An error occurred.">>)))

format_agent_output(out) ==
    IF out.k = "dict" /\ "messages" \in DOMAIN out.d
    THEN IF out.d.messages = << >> THEN Raised("IndexError")
         ELSE FormatContent(out.d.messages[Len(out.d.messages)].content)
    ELSE IF out.k = "dict" /\ "current_task" \in DOMAIN out.d
    THEN Returned("next_task", out.d.current_task)
    ELSE Returned("raw", out)

-----------------------------------------------------------------------------
(* nodes/google_apis_node.py: google_api_agent_node *)

AIMessage(content) == [role |-> "ai", content |-> content]

\* line 32: state.get("current_task", "No task specified")
CurrentTask(st) ==
    IF "current_task" \in DOMAIN st THEN st.current_task ELSE "No task specified"

\* lines 36-39: the prompt string given to agent.run
McpPrompt(task) == [system |-> "google_api_agent_system_prompt", task |-> task]

\* lines 49-57: the messages given to the formatting model
FormattingMessages(task, raw) ==
    [system |-> "formatting_prompt", request |-> task, raw |-> raw]

IdleWorker ==
    [current_task |-> "", agent_prompt |-> McpPrompt(""), agent_calls |-> 0,
     agent_returned |-> FALSE, raw |-> "", raised |-> FALSE, fmt_calls |-> 0,
     fmt_returned |-> FALSE, fmt_args |-> FormattingMessages("", "")]

\* lines 23-43: up to and including the call of agent.run
WorkerStart(st) ==
    [IdleWorker EXCEPT !.current_task = CurrentTask(st),
                       !.agent_prompt = McpPrompt(CurrentTask(st)),
                       !.agent_calls = 1]

\* lines 43-59: agent.run returned raw; the formatting model is invoked
WorkerAgentReturned(w, raw) ==
    [w EXCEPT !.agent_returned = TRUE,
              !.raw = raw,
              !.fmt_calls = @ + 1,
              !.fmt_args = FormattingMessages(w.current_task, raw)]

\* lines 59-61: formatting_llm.invoke returned
WorkerFormatterReturned(w) == [w EXCEPT !.fmt_returned = TRUE]

\* an except clause that sends the error through the formatting model
WorkerExceptFormats(w) == [w EXCEPT !.raised = TRUE, !.fmt_calls = @ + 1]

\* line 70: the except clause is entered; nothing else is called
WorkerExcept(w) == [w EXCEPT !.raised = TRUE]

\* lines 64-68: the success return
SuccessReturn(content) == [messages |-> <<AIMessage(content)>>]

\* lines 72-77: error_output
ErrorOutput(e) ==
    PyDict(<< <<Key("status"), PyStr(<<"FAILURE">>)>>,
              <<Key("summary"),
                PyStr(<<"An error occurred in the Google API agent: ">>
                      \o StrOf(e.msg))>>,
              <<Key("extracted_data"),
                PyDict(<< <<Key("emails"), PyList(<< >>)>>,
                          <<Key("events"), PyList(<< >>)>> >>)>>,
              <<Key("error_message"), PyStr(StrOf(e.msg))>> >>)

\* a failure return that carries no message
ExceptReturnNothing(e) == [messages |-> << >>]

\* lines 78-80: the failure return
ExceptReturn(e) == [messages |-> <<AIMessage(Dumps(ErrorOutput(e)))>>]

NoReturn == [path |-> "none", value |-> [messages |-> << >>]]

-----------------------------------------------------------------------------
(* graph/: the State reducer, the planner and the dispatcher, from the     *)
(* specification (sections 3, 4.3 and 4.4)                                 *)

\* section 3: messages is append-only, the other fields are overwritten
MergeState(st, upd) ==
    [f \in DOMAIN st \cup DOMAIN upd |->
        IF f = "messages"
        THEN IF f \in DOMAIN upd THEN st.messages \o upd.messages ELSE st.messages
        ELSE IF f \in DOMAIN upd THEN upd[f] ELSE st[f]]

\* section 4.3: the planner names a worker and its task, or declares the run
\* complete with a non-empty final answer
PlannerDecisions ==
    {[current_task |-> t, next_agent |-> "google_apis_agent"] : t \in Tasks}
    \cup {[next_agent |-> "END", final_answer |-> a] : a \in FinalAnswers}

\* section 4.4: the node the dispatcher runs after a step
NextNode(st) ==
    IF "next_agent" \in DOMAIN st /\ st.next_agent = "END" THEN "graph_end"
    ELSE "worker"

\* section 4.4: the step budget is spent
BudgetSpent == steps >= MaxSteps

-----------------------------------------------------------------------------
(* streamlit_ui.py: execute_graph *)

Nothing == [k |-> "nothing"]
Text(s) == [k |-> "text", s |-> s]

\* an initial State that carries the chat history of the session into the run
InitialStateWithHistory(p) ==
    [messages |-> Append(session_messages, [role |-> "user", content |-> p])]

\* line 51
InitialState(p) == [messages |-> <<[role |-> "user", content |-> p]>>]

\* lines 56-58
OnChainStart(name) == [style |-> "executing", body |-> name]

\* lines 60-71: the locals after an on_chain_end event, or the exception
\* that format_agent_output raised
OnChainEnd(name, out, cur_output, cur_shown) ==
    IF name = "LangGraph"
    THEN [raised |-> FALSE, output |-> cur_output, shown |-> cur_shown]
    ELSE IF out.k = "dict" /\ "next_agent" \in DOMAIN out.d
                           /\ out.d.next_agent = "END"
    THEN [raised |-> FALSE, output |-> out,
          shown |-> [style |-> "plan_complete", body |-> name]]
    ELSE LET f == format_agent_output(out)
         IN  IF f.raised
             THEN [raised |-> TRUE, exc |-> f.exc, output |-> out,
                   shown |-> [style |-> "finished", body |-> name]]
             ELSE [raised |-> FALSE, output |-> out,
                   shown |-> [style |-> f.style, body |-> f.body]]

\* lines 73-75
OnGraphEnd(final_state) ==
    IF "final_answer" \in DOMAIN final_state THEN final_state.final_answer
    ELSE "I have completed the task, but no final answer was generated."

\* a stream loop that swallows the exception and carries on to line 77
StreamExceptionSwallowed(exc) == [pc |-> "finish", failure |-> "none"]

\* lines 53-76 have no try/except: an exception raised while the graph is
\* streamed leaves execute_graph (and asyncio.run, line 122) at once
StreamException(exc) == [pc |-> "failed", failure |-> exc]

\* line 78: output.get("final_answer")
RenderedAnswer(out) ==
    IF "final_answer" \in DOMAIN out.d THEN Text(out.d.final_answer) ELSE Nothing

-----------------------------------------------------------------------------
(* The state machine *)

Init ==
    /\ session_messages = << >>
    /\ pc = "idle"
    /\ prompt = ""
    /\ final_answer = ""
    /\ output = Unbound
    /\ initial_state = InitialState("")
    /\ shown = [style |-> "none", body |-> ""]
    /\ rendered = Nothing
    /\ failure = "none"
    /\ state = InitialState("")
    /\ steps = 0
    /\ worker = IdleWorker
    /\ last_return = NoReturn
    /\ runs = 0

\* script lines 109-122 and execute_graph lines 44-53: a prompt is submitted,
\* the run starts and the first event (on_chain_start of the graph) arrives
Submit(p) ==
    /\ pc \in {"idle", "done", "failed"}
    /\ runs < MaxRuns
    /\ runs' = runs + 1
    /\ session_messages' = Append(session_messages, [role |-> "user", content |-> p])
    /\ prompt' = p
    /\ final_answer' = ""
    /\ output' = Unbound
    /\ initial_state' = InitialState(p)
    /\ state' = InitialState(p)
    /\ steps' = 0
    /\ shown' = OnChainStart("LangGraph")
    /\ rendered' = Nothing
    /\ failure' = "none"
    /\ worker' = IdleWorker
    /\ last_return' = NoReturn
    /\ pc' = "planner"

\* the dispatcher would start a node with the step budget spent: the run
\* raises, and the exception leaves execute_graph
BudgetExceeded ==
    /\ pc \in {"planner", "worker"}
    /\ BudgetSpent
    /\ pc' = StreamException("GraphRecursionError").pc
    /\ failure' = StreamException("GraphRecursionError").failure
    /\ UNCHANGED <<session_messages, prompt, final_answer, output, initial_state,
                   shown, rendered, state, steps, worker, last_return, runs>>

\* the planner node starts: on_chain_start
PlannerStart ==
    /\ pc = "planner"
    /\ ~BudgetSpent
    /\ shown' = OnChainStart("planner")
    /\ pc' = "planner_run"
    /\ UNCHANGED <<session_messages, prompt, final_answer, output, initial_state,
                   rendered, failure, state, steps, worker, last_return, runs>>

\* a node returned upd: the State is merged, on_chain_end is handled
NodeReturns(name, upd) ==
    LET h == OnChainEnd(name, OutDict(upd), output, shown)
        st == MergeState(state, upd)
    IN  /\ state' = st
        /\ steps' = steps + 1
        /\ output' = h.output
        /\ shown' = h.shown
        /\ IF h.raised
           THEN /\ pc' = StreamException(h.exc).pc
                /\ failure' = StreamException(h.exc).failure
           ELSE /\ pc' = IF name = "planner" THEN NextNode(st) ELSE "planner"
                /\ UNCHANGED failure

PlannerReturns(d) ==
    /\ pc = "planner_run"
    /\ NodeReturns("planner", d)
    /\ UNCHANGED <<session_messages, prompt, final_answer, initial_state,
                   rendered, worker, last_return, runs>>

\* google_api_agent_node is invoked (on_chain_start) and runs up to agent.run
WorkerInvoked ==
    /\ pc = "worker"
    /\ ~BudgetSpent
    /\ shown' = OnChainStart("google_apis_agent")
    /\ worker' = WorkerStart(state)
    /\ last_return' = NoReturn
    /\ pc' = "agent_wait"
    /\ UNCHANGED <<session_messages, prompt, final_answer, output, initial_state,
                   rendered, failure, state, steps, runs>>

\* building the client, the model or the agent (lines 24-29) raises e: the
\* node goes to its except clause before agent.run is called
WorkerSetupRaises(e) ==
    /\ pc = "worker"
    /\ ~BudgetSpent
    /\ worker' = WorkerExcept(IdleWorker)
    /\ last_return' = [path |-> "except", value |-> ExceptReturn(e)]
    /\ NodeReturns("google_apis_agent", ExceptReturn(e))
    /\ UNCHANGED <<session_messages, prompt, final_answer, initial_state,
                   rendered, runs>>

\* agent.run returns; the formatting model is invoked
AgentReturns(raw) ==
    /\ pc = "agent_wait"
    /\ worker' = WorkerAgentReturned(worker, raw)
    /\ pc' = "fmt_wait"
    /\ UNCHANGED <<session_messages, prompt, final_answer, output, initial_state,
                   shown, rendered, failure, state, steps, last_return, runs>>

\* the formatting model returns; the node returns its one message
FormatterReturns(content) ==
    /\ pc = "fmt_wait"
    /\ worker' = WorkerFormatterReturned(worker)
    /\ last_return' = [path |-> "success", value |-> SuccessReturn(content)]
    /\ NodeReturns("google_apis_agent", SuccessReturn(content))
    /\ UNCHANGED <<session_messages, prompt, final_answer, initial_state,
                   rendered, runs>>

\* agent.run or the formatting call raises e: the except clause returns
WorkerRaises(e) ==
    /\ pc \in {"agent_wait", "fmt_wait"}
    /\ worker' = WorkerExcept(worker)
    /\ last_return' = [path |-> "except", value |-> ExceptReturn(e)]
    /\ NodeReturns("google_apis_agent", ExceptReturn(e))
    /\ UNCHANGED <<session_messages, prompt, final_answer, initial_state,
                   rendered, runs>>

\* an on_graph_end event carrying the final State (lines 73-75)
GraphEndEvent ==
    /\ pc = "graph_end"
    /\ final_answer' = OnGraphEnd(state)
    /\ pc' = "graph_ended"
    /\ UNCHANGED <<session_messages, prompt, output, initial_state, shown, rendered,
                   failure, state, steps, worker, last_return, runs>>

\* the graph's own on_chain_end (skipped, line 62) ends the stream
StreamEnds ==
    /\ pc \in {"graph_end", "graph_ended"}
    /\ output' = OnChainEnd("LangGraph", OutDict(state), output, shown).output
    /\ shown' = OnChainEnd("LangGraph", OutDict(state), output, shown).shown
    /\ pc' = "finish"
    /\ UNCHANGED <<session_messages, prompt, final_answer, initial_state, rendered,
                   failure, state, steps, worker, last_return, runs>>

\* lines 77-80
Finish ==
    /\ pc = "finish"
    /\ IF output.k = "unbound"
       THEN /\ pc' = "failed"
            /\ failure' = "UnboundLocalError"
            /\ UNCHANGED <<session_messages, rendered, shown>>
       ELSE /\ shown' = [style |-> "task_complete", body |-> ""]
            /\ rendered' = RenderedAnswer(output)
            /\ session_messages' =
                   Append(session_messages,
                          [role |-> "assistant", content |-> final_answer])
            /\ pc' = "done"
            /\ UNCHANGED failure
    /\ UNCHANGED <<prompt, final_answer, output, initial_state, state, steps,
                   worker, last_return, runs>>

\* the steps the program takes by itself
ProgramStep ==
    \/ BudgetExceeded
    \/ PlannerStart
    \/ WorkerInvoked
    \/ StreamEnds
    \/ Finish

\* the steps that need the user, a model or an external service to act
ExternalStep ==
    \/ \E p \in Prompts : Submit(p)
    \/ \E d \in PlannerDecisions : PlannerReturns(d)
    \/ \E raw \in RawOutputs : AgentReturns(raw)
    \/ \E c \in FormatterOutputs : FormatterReturns(c)
    \/ \E e \in Errors : WorkerSetupRaises(e)
    \/ \E e \in Errors : WorkerRaises(e)
    \/ GraphEndEvent

Next == ProgramStep \/ ExternalStep

Spec == Init /\ [][Next]_vars

\* the event loop resumes the program's own steps; whether a model or a
\* service ever answers is not in the program's hands
FairSpec == Spec /\ WF_vars(ProgramStep)

-----------------------------------------------------------------------------
(* Properties *)

Last(seq) == seq[Len(seq)]
WorkerActive == pc \in {"agent_wait", "fmt_wait"}
\* the worker step is due or running; it ends by a return (a step is counted)
InWorkerStep == pc \in {"worker", "agent_wait", "fmt_wait"}
IsEmptyList(val) == val.k = "list" /\ val.items = << >>
IsObject(text) == ~Loads(text).raised /\ Loads(text).val.k = "dict"

\* the text is a JSON object whose extracted_data holds both category keys
HasAllCategories(text) ==
    /\ IsObject(text)
    /\ LET data == DictGet(Loads(text).val, Key("extracted_data"), PyNone)
       IN  /\ data.k = "dict"
           /\ HasKey(data, Key("emails"))
           /\ HasKey(data, Key("events"))

\* the text conforms to the Structured Result schema of section 3
Conforms(text) ==
    /\ HasAllCategories(text)
    /\ LET status == DictGet(Loads(text).val, Key("status"), PyNone)
       IN  IsStr(status, <<"SUCCESS">>) \/ IsStr(status, <<"FAILURE">>)
    /\ DictGet(Loads(text).val, Key("summary"), PyNone).k = "str"

\* C1: whenever a step of the worker raises, the node returns exactly one
\* message whose content parses as a Structured Result with status FAILURE,
\* empty emails and events, and a non-empty error_message.
C1_ExceptReturnsFailureResult ==
    last_return.path = "except" =>
        /\ Len(last_return.value.messages) = 1
        /\ LET text == last_return.value.messages[1].content
           IN  /\ Conforms(text)
               /\ LET res == Loads(text).val
                      data == DictGet(res, Key("extracted_data"), PyNone)
                      err == DictGet(res, Key("error_message"), PyNone)
                  IN  /\ IsStr(DictGet(res, Key("status"), PyNone), <<"FAILURE">>)
                      /\ IsEmptyList(DictGet(data, Key("emails"), PyNone))
                      /\ IsEmptyList(DictGet(data, Key("events"), PyNone))
                      /\ err.k = "str"
                      /\ err.s # << >>

\* C2: within a run messages is append-only (it never shrinks, its entries
\* are never reordered or changed), and every return of the worker step, on
\* the success path and on the failure path, adds exactly one entry.
C2_MessagesAppendOnly ==
    [][runs' = runs =>
         /\ Len(state'.messages) >= Len(state.messages)
         /\ SubSeq(state'.messages, 1, Len(state.messages)) = state.messages
         /\ (InWorkerStep /\ ~InWorkerStep' /\ steps' = steps + 1) =>
                Len(state'.messages) = Len(state.messages) + 1]_vars

C2_Witness ==
    /\ Len(state.messages) = 3
    /\ state.messages[2].content = GoodSuccess
    /\ last_return.path = "except"

\* C3: every Structured Result a worker step appends to messages holds both
\* extracted_data category keys, whichever path of the node produced it.
C3_AppendedResultsHaveAllCategories ==
    \A i \in 1..Len(last_return.value.messages) :
        LET text == last_return.value.messages[i].content
        IN  (IsObject(text) /\ HasKey(Loads(text).val, Key("status")))
                => HasAllCategories(text)

\* C4: a run whose planner never names the terminal sentinel never takes
\* more than MaxSteps steps; with the budget spent its only step is the
\* fatal error, which leaves execute_graph without a final answer rendered
\* or persisted; and a run only completes after the sentinel was set.
C4_StepBudgetIsFatal ==
    /\ [](steps <= MaxSteps)
    /\ [](pc = "done" => ("next_agent" \in DOMAIN state /\ state.next_agent = "END"))
    /\ []((pc = "failed" /\ failure = "GraphRecursionError") =>
            /\ rendered = Nothing
            /\ shown.style # "task_complete"
            /\ Last(session_messages).role # "assistant")
    /\ [][(BudgetSpent /\ pc \in {"planner", "worker"}) =>
            (pc' = "failed" /\ failure' = "GraphRecursionError")]_vars

C4_Witness ==
    /\ pc = "failed"
    /\ failure = "GraphRecursionError"
    /\ steps = MaxSteps
    /\ state.next_agent # "END"

\* C5: a run that reached the terminal sentinel has a non-empty final_answer,
\* and that answer is what execute_graph renders and records as the
\* assistant's answer when the run completes.
C5_FinalAnswerSurfaced ==
    pc = "done" =>
        /\ state.final_answer # ""
        /\ rendered = Text(state.final_answer)
        /\ Last(session_messages) =
               [role |-> "assistant", content |-> state.final_answer]

\* C6: after a run-level error the persisted chat history holds no entry of
\* the failed run: it is empty or ends with a completed turn's answer.
C6_NothingPersistedAfterFailure ==
    pc = "failed" =>
        \/ session_messages = << >>
        \/ Last(session_messages).role = "assistant"

\* C7: format_agent_output never raises on the content of the last message,
\* and shows the raw text whenever the content is not a Structured Result.
C7_FormatNeverRaises ==
    (output.k = "dict" /\ "messages" \in DOMAIN output.d /\ output.d.messages # << >>) =>
        LET f == format_agent_output(output)
        IN  /\ ~f.raised
            /\ ~Conforms(Last(output.d.messages).content) => f.style = "raw"

\* C8: every invocation of the worker step eventually returns, whether or
\* not the external call it waits for ever answers.
C8_WorkerEventuallyReturns == WorkerActive ~> ~WorkerActive

C10_WorkerStepSequential ==
    /\ worker.agent_calls <= 1
    /\ worker.fmt_calls <= 1
    /\ WorkerActive =>
           /\ worker.agent_calls = 1
           /\ worker.current_task = CurrentTask(state)
           /\ worker.agent_prompt.task = worker.current_task
    /\ pc = "agent_wait" => (~worker.agent_returned /\ worker.fmt_calls = 0)
    /\ pc = "fmt_wait" => (worker.agent_returned /\ worker.fmt_calls = 1)
    /\ worker.fmt_calls = 1 =>
           /\ worker.agent_returned
           /\ worker.fmt_args.request = worker.current_task
           /\ worker.fmt_args.raw = worker.raw
    /\ last_return.path = "success" =>
           (worker.agent_returned /\ worker.fmt_returned /\ ~worker.raised)
    /\ last_return.path = "except" => (worker.raised /\ ~worker.fmt_returned)
    /\ (worker.raised /\ ~worker.agent_returned) => worker.fmt_calls = 0

C10_Witness ==
    /\ pc = "planner"
    /\ last_return.path = "success"
    /\ worker.fmt_calls = 1
    /\ worker.fmt_returned
    /\ steps >= 2

\* C11: when a run completes, the history ends with the run's user entry
\* followed by one assistant entry, the text rendered as the final answer is
\* the text of that assistant entry, and both are the final_answer of the
\* run's final State.
C11_RenderedIsRecordedAnswer ==
    pc = "done" =>
        LET n == Len(session_messages)
        IN  /\ n >= 2
            /\ session_messages[n - 1] = [role |-> "user", content |-> prompt]
            /\ session_messages[n].role = "assistant"
            /\ rendered = Text(session_messages[n].content)
            /\ session_messages[n].content = OnGraphEnd(state)

====
